---- MODULE Spec2Model ----
(***************************************************************************)
(* A model of src/app.py, a Streamlit script.  One behaviour of the model  *)
(* is one run of the script, top to bottom, after the user pressed one of  *)
(* the two buttons (or none).  Text is modelled as sequences of            *)
(* one-character strings so that split, strip and splitlines are computed  *)
(* as Python computes them.                                                *)
(***************************************************************************)
EXTENDS Integers, Sequences, FiniteSets, TLC

VARIABLES
    pc,               \* position of the script
    outcome,          \* "running" | "completed" | "stopped" | "crashed"
    exc,              \* the exception that ended the run, "" when none
    cred,             \* state of st.secrets["OPENAI_API_KEY"]
    clicked,          \* the button whose st.button(...) returns True in this run
    books_input,      \* content of the text area (characters)
    topic,            \* content of the topic text input (characters)
    book_list,        \* line 22
    idx,              \* position of `for book in book_list`
    calls,            \* oracle requests issued so far, in order
    concepts_by_book, \* line 29: dict, kept as a sequence of <<key, value>> in insertion order
    G,                \* the networkx graph of line 52
    cursor,           \* position of the nested loops of lines 53-63
    net,              \* what was handed to the pyvis Network (line 70)
    tmp_file,         \* "none" | "exists" | "deleted"
    shown,            \* the html document embedded in the page (line 79)
    response,         \* output_text of the Fetch Events oracle response
    ui                \* messages written to the page, in order

vars == <<pc, outcome, exc, cred, clicked, books_input, topic, book_list, idx, calls,
          concepts_by_book, G, cursor, net, tmp_file, shown, response, ui>>

----------------------------------------------------------------------------
(* Bounds of the model *)

MaxInputLines == 2   \* lines typed into the book text area
MaxLines == 1        \* lines of one oracle response

----------------------------------------------------------------------------
(* Text helpers: Python's str methods on sequences of characters *)

NL == "\n"

RECURSIVE JoinNL(_)
JoinNL(ls) ==
    IF ls = <<>> THEN <<>>
    ELSE IF Len(ls) = 1 THEN ls[1]
    ELSE ls[1] \o <<NL>> \o JoinNL(Tail(ls))

\* str.split("\n"): always at least one part, a trailing newline yields a last empty part
RECURSIVE SplitNLFrom(_, _)
SplitNLFrom(s, part) ==
    IF s = <<>> THEN <<part>>
    ELSE IF Head(s) = NL THEN <<part>> \o SplitNLFrom(Tail(s), <<>>)
    ELSE SplitNLFrom(Tail(s), Append(part, Head(s)))

SplitNL(s) == SplitNLFrom(s, <<>>)

\* str.splitlines(): no part for the empty string, none after a trailing newline
splitlines(s) ==
    LET parts == SplitNL(s)
    IN  IF parts[Len(parts)] = <<>> THEN SubSeq(parts, 1, Len(parts) - 1) ELSE parts

\* str.split("->")
RECURSIVE SplitArrowFrom(_, _)
SplitArrowFrom(s, part) ==
    IF s = <<>> THEN <<part>>
    ELSE IF Len(s) >= 2 /\ s[1] = "-" /\ s[2] = ">"
         THEN <<part>> \o SplitArrowFrom(SubSeq(s, 3, Len(s)), <<>>)
    ELSE SplitArrowFrom(Tail(s), Append(part, Head(s)))

SplitArrow(s) == SplitArrowFrom(s, <<>>)

\* "->" in line
HasArrow(s) == \E i \in 1..(Len(s) - 1) : s[i] = "-" /\ s[i + 1] = ">"

IsSpace(c) == c \in {" ", NL}

RECURSIVE lstrip(_)
lstrip(s) == IF s # <<>> /\ IsSpace(Head(s)) THEN lstrip(Tail(s)) ELSE s

RECURSIVE rstrip(_)
rstrip(s) ==
    IF s # <<>> /\ IsSpace(s[Len(s)]) THEN rstrip(SubSeq(s, 1, Len(s) - 1)) ELSE s

strip(s) == rstrip(lstrip(s))

SeqsUpTo(S, n) == UNION {[1..k -> S] : k \in 0..n}

----------------------------------------------------------------------------
(* Inputs *)

BookLines == { <<"R">>, <<" ", "L", " ">>, <<" ">> }

\* the value= of the widgets (lines 18 and 100), abridged to the model's alphabet
DefaultBooks == <<"R", NL, "L">>

DefaultTopic == <<"P">>

BookInputs == { JoinNL(ls) : ls \in (SeqsUpTo(BookLines, MaxInputLines) \ {<<>>}) }

Topics == { <<>>, <<"P">> }

ResponseLines ==
    { <<"a", "-", ">", "b">>,
      <<"b", " ", "-", ">", " ", "a">>,
      <<"a", "-", ">", " ">>,
      <<"a", "-", ">", "b", "-", ">", "c">>,
      <<"a", "b">>,
      <<"b", "-", ">", "c">> }

Texts == { JoinNL(ls) : ls \in SeqsUpTo(ResponseLines, MaxLines) }

\* output_text values of the Fetch Events response; json.loads would accept the first two
ValidJSONTexts == { <<"[", "]">>, <<"[", "{", "}", "]">> }

InvalidJSONTexts == { <<>>, <<"[", "{">>, <<"x">> }

FetchTexts == ValidJSONTexts \cup InvalidJSONTexts

\* names bound in the module namespace by the import statements
Imports == { "st", "OpenAI", "nx", "Network", "tempfile", "os" }

----------------------------------------------------------------------------
(* Python dict and networkx.Graph *)

EmptyDict == [x \in {} |-> x]

\* dict.update: the new entries win
DictUpdate(old, new) == new @@ old

\* concepts_by_book[book] = generated, on a dict kept in insertion order
RECURSIVE DictSet(_, _, _)
DictSet(d, k, v) ==
    IF d = <<>> THEN << <<k, v>> >>
    ELSE IF d[1][1] = k THEN << <<k, v>> >> \o Tail(d)
    ELSE << d[1] >> \o DictSet(Tail(d), k, v)

\* nx.Graph()
EmptyGraph == [node |-> EmptyDict, adj |-> EmptyDict]

\* Graph.add_node(n, **attr)
add_node(g, n, attr) ==
    LET old == IF n \in DOMAIN g.node THEN g.node[n] ELSE EmptyDict
    IN  [g EXCEPT !.node = (n :> DictUpdate(old, attr)) @@ g.node]

\* a DiGraph-like add_edge: u->v and v->u are two entries
add_edge_directed(g, u, v, attr) ==
    LET withU == IF u \in DOMAIN g.node THEN g.node ELSE (u :> EmptyDict) @@ g.node
        withV == IF v \in DOMAIN withU THEN withU ELSE (v :> EmptyDict) @@ withU
        key == <<u, v>>
        old == IF key \in DOMAIN g.adj THEN g.adj[key] ELSE EmptyDict
    IN  [node |-> withV, adj |-> (key :> DictUpdate(old, attr)) @@ g.adj]

\* a MultiGraph-like add_edge: every call adds a parallel edge
add_edge_multi(g, u, v, attr) ==
    LET withU == IF u \in DOMAIN g.node THEN g.node ELSE (u :> EmptyDict) @@ g.node
        withV == IF v \in DOMAIN withU THEN withU ELSE (v :> EmptyDict) @@ withU
        key == <<{u, v}, Cardinality({e \in DOMAIN g.adj : e[1] = {u, v}})>>
    IN  [node |-> withV, adj |-> (key :> attr) @@ g.adj]

\* Graph.add_edge(u, v, **attr): the endpoints are created when absent, and
\* the undirected edge u-v is the same entry as v-u
add_edge(g, u, v, attr) ==
    LET withU == IF u \in DOMAIN g.node THEN g.node ELSE (u :> EmptyDict) @@ g.node
        withV == IF v \in DOMAIN withU THEN withU ELSE (v :> EmptyDict) @@ withU
        key == {u, v}
        old == IF key \in DOMAIN g.adj THEN g.adj[key] ELSE EmptyDict
    IN  [node |-> withV, adj |-> (key :> DictUpdate(old, attr)) @@ g.adj]

number_of_nodes(g) == Cardinality(DOMAIN g.node)

number_of_edges(g) == Cardinality(DOMAIN g.adj)

----------------------------------------------------------------------------
(* Generate Map: the graph accumulator of lines 53-63 *)

\* lines 55-60: the line is an accepted relation
Accepted(line) ==
    /\ HasArrow(line)
    /\ Len(SplitArrow(line)) = 2
    /\ strip(SplitArrow(line)[1]) # <<>>
    /\ strip(SplitArrow(line)[2]) # <<>>

\* an accumulator that records the edge in a plain edge list and declares no node
AddRelationEdgeList(g, src, tgt, book) ==
    [g EXCEPT !.adj = ({src, tgt} :> ("book" :> book)) @@ g.adj]

\* lines 61-63
AddRelation(g, src, tgt, book) ==
    add_edge(add_node(add_node(g, src, "book" :> book), tgt, "book" :> book),
             src, tgt, "book" :> book)

\* lines 54-63 for one line
AccumulateLine(g, book, line) ==
    IF Accepted(line)
    THEN AddRelation(g, strip(SplitArrow(line)[1]), strip(SplitArrow(line)[2]), book)
    ELSE g

\* the first position at or after (b, l) of the nested loops that holds a line
RECURSIVE Seek(_, _, _)
Seek(cbb, b, l) ==
    IF b > Len(cbb) THEN [b |-> Len(cbb) + 1, l |-> 1]
    ELSE IF l <= Len(splitlines(cbb[b][2])) THEN [b |-> b, l |-> l]
    ELSE Seek(cbb, b + 1, 1)

\* lines 53-63 as a whole: the accumulator run over the dict, on top of graph g
RECURSIVE AccumulateFrom(_, _, _)
AccumulateFrom(g, cbb, pos) ==
    IF pos.b > Len(cbb) THEN g
    ELSE AccumulateFrom(
             AccumulateLine(g, cbb[pos.b][1], splitlines(cbb[pos.b][2])[pos.l]),
             cbb, Seek(cbb, pos.b, pos.l + 1))

Accumulate(g, cbb) == AccumulateFrom(g, cbb, Seek(cbb, 1, 1))

----------------------------------------------------------------------------
(* The script *)

Msg(kind, msg, raw) == [kind |-> kind, msg |-> msg, raw |-> raw]

NoFile == [state |-> "none", html |-> EmptyGraph]

Init ==
    /\ pc = "setup"
    /\ outcome = "running"
    /\ exc = ""
    /\ cred \in {"missing", "invalid", "valid"}
    /\ clicked \in {"none", "map", "fetch"}
    /\ books_input \in (IF clicked = "map" THEN BookInputs ELSE {DefaultBooks})
    /\ topic \in (IF clicked = "fetch" THEN Topics ELSE {DefaultTopic})
    /\ book_list = <<>>
    /\ idx = 0
    /\ calls = <<>>
    /\ concepts_by_book = <<>>
    /\ G = EmptyGraph
    /\ cursor = [b |-> 0, l |-> 0]
    /\ net = EmptyGraph
    /\ tmp_file = NoFile
    /\ shown = EmptyGraph
    /\ response = <<>>
    /\ ui = <<>>

\* an exception no handler catches ends the run of the script
Raise(e) ==
    /\ pc' = "end"
    /\ outcome' = "crashed"
    /\ exc' = e

\* a lookup with a default (st.secrets.get) instead of the subscript of line 9
SetupClientLenient ==
    /\ pc = "setup"
    /\ pc' = "map_button"
    /\ UNCHANGED <<outcome, exc, cred, clicked, books_input, topic, book_list, idx, calls,
                   concepts_by_book, G, cursor, net, tmp_file, shown, response, ui>>

\* lines 9-10: st.secrets[...] raises KeyError for an absent key; OpenAI(api_key=...)
\* stores any string without contacting the service
SetupClient ==
    /\ pc = "setup"
    /\ IF cred = "missing"
       THEN Raise("KeyError")
       ELSE pc' = "map_button" /\ UNCHANGED <<outcome, exc>>
    /\ UNCHANGED <<cred, clicked, books_input, topic, book_list, idx, calls,
                   concepts_by_book, G, cursor, net, tmp_file, shown, response, ui>>

\* line 22
BookList(input) ==
    SelectSeq([i \in 1..Len(SplitNL(input)) |-> strip(SplitNL(input)[i])],
              LAMBDA b : b # <<>>)

\* lines 21-29
GenerateMapButton ==
    /\ pc = "map_button"
    /\ IF clicked # "map"
       THEN /\ pc' = "fetch_button"
            /\ UNCHANGED <<book_list, idx, ui>>
       ELSE /\ book_list' = BookList(books_input)
            /\ IF book_list' = <<>>
               THEN /\ ui' = Append(ui, Msg("error", "Please enter at least one book.", <<>>))
                    /\ pc' = "fetch_button"
                    /\ idx' = idx
               ELSE /\ ui' = Append(ui, Msg("info", "Processing books", <<>>))
                    /\ pc' = "call"
                    /\ idx' = 1
    /\ UNCHANGED <<outcome, exc, cred, clicked, books_input, topic, calls,
                   concepts_by_book, G, cursor, net, tmp_file, shown, response>>

\* what openai_client.responses.create and the read of its result can do: the
\* request fails (always so with a credential the service rejects), the response
\* has no output[0].content["text"], or it carries a text
OracleOutcomes ==
    IF cred = "invalid"
    THEN { [kind |-> "raise", text |-> <<>>] }
    ELSE { [kind |-> "raise", text |-> <<>>], [kind |-> "no_text", text |-> <<>>] }
         \cup { [kind |-> "text", text |-> t] : t \in Texts }

\* lines 30-47, one iteration
OracleCall ==
    /\ pc = "call"
    /\ idx <= Len(book_list)
    /\ calls' = Append(calls, [op |-> "concepts", arg |-> book_list[idx]])
    /\ \E out \in OracleOutcomes :
         IF out.kind = "raise"
         THEN Raise("APIError") /\ UNCHANGED <<concepts_by_book, idx>>
         ELSE IF out.kind = "no_text"
         THEN Raise("TypeError") /\ UNCHANGED <<concepts_by_book, idx>>
         ELSE /\ concepts_by_book' = DictSet(concepts_by_book, book_list[idx], out.text)
              /\ idx' = idx + 1
              /\ pc' = IF idx' > Len(book_list) THEN "graph" ELSE "call"
              /\ UNCHANGED <<outcome, exc>>
    /\ UNCHANGED <<cred, clicked, books_input, topic, book_list, G, cursor, net,
                   tmp_file, shown, response, ui>>

\* lines 49-52
BuildStart ==
    /\ pc = "graph"
    /\ ui' = Append(ui, Msg("success", "Concept extraction complete.", <<>>))
    /\ G' = EmptyGraph
    /\ cursor' = Seek(concepts_by_book, 1, 1)
    /\ pc' = IF cursor'.b > Len(concepts_by_book) THEN "check" ELSE "build"
    /\ UNCHANGED <<outcome, exc, cred, clicked, books_input, topic, book_list, idx, calls,
                   concepts_by_book, net, tmp_file, shown, response>>

\* lines 53-63, one line of one book's text
BuildLine ==
    /\ pc = "build"
    /\ LET book == concepts_by_book[cursor.b][1]
           line == splitlines(concepts_by_book[cursor.b][2])[cursor.l]
       IN  G' = AccumulateLine(G, book, line)
    /\ cursor' = Seek(concepts_by_book, cursor.b, cursor.l + 1)
    /\ pc' = IF cursor'.b > Len(concepts_by_book) THEN "check" ELSE "build"
    /\ UNCHANGED <<outcome, exc, cred, clicked, books_input, topic, book_list, idx, calls,
                   concepts_by_book, net, tmp_file, shown, response, ui>>

\* lines 65-70
CheckEmpty ==
    /\ pc = "check"
    /\ IF number_of_nodes(G) = 0
       THEN /\ ui' = Append(ui, Msg("warning", "No concepts found or parsed.", <<>>))
            /\ pc' = "expander"
            /\ net' = net
       ELSE /\ net' = G
            /\ pc' = "save"
            /\ ui' = ui
    /\ UNCHANGED <<outcome, exc, cred, clicked, books_input, topic, book_list, idx, calls,
                   concepts_by_book, G, cursor, tmp_file, shown, response>>

\* lines 73-75
SaveGraph ==
    /\ pc = "save"
    /\ tmp_file' = [state |-> "exists", html |-> net]
    /\ pc' = "show"
    /\ UNCHANGED <<outcome, exc, cred, clicked, books_input, topic, book_list, idx, calls,
                   concepts_by_book, G, cursor, net, shown, response, ui>>

\* lines 78-79
ShowGraph ==
    /\ pc = "show"
    /\ shown' = tmp_file.html
    /\ ui' = Append(ui, Msg("html", "", <<>>))
    /\ pc' = "unlink"
    /\ UNCHANGED <<outcome, exc, cred, clicked, books_input, topic, book_list, idx, calls,
                   concepts_by_book, G, cursor, net, tmp_file, response>>

\* the clean-up of line 82 left out
UnlinkSkipped ==
    /\ pc = "unlink"
    /\ pc' = "expander"
    /\ UNCHANGED <<outcome, exc, cred, clicked, books_input, topic, book_list, idx, calls,
                   concepts_by_book, G, cursor, net, tmp_file, shown, response, ui>>

\* line 82
Unlink ==
    /\ pc = "unlink"
    /\ tmp_file' = [tmp_file EXCEPT !.state = "deleted"]
    /\ pc' = "expander"
    /\ UNCHANGED <<outcome, exc, cred, clicked, books_input, topic, book_list, idx, calls,
                   concepts_by_book, G, cursor, net, shown, response, ui>>

\* lines 85-88
Expander ==
    /\ pc = "expander"
    /\ ui' = ui \o [i \in 1..Len(concepts_by_book) |->
                      Msg("text", "raw", concepts_by_book[i][2])]
    /\ pc' = "fetch_button"
    /\ UNCHANGED <<outcome, exc, cred, clicked, books_input, topic, book_list, idx, calls,
                   concepts_by_book, G, cursor, net, tmp_file, shown, response>>

\* lines 92-105; when the button was not pressed the script runs off its end.
\* The second st.set_page_config of line 94 is taken to be accepted, as current
\* Streamlit accepts it.
FetchEventsButton ==
    /\ pc = "fetch_button"
    /\ IF clicked = "fetch" /\ topic # <<>>
       THEN /\ ui' = Append(ui, Msg("info", "Fetching events", <<>>))
            /\ pc' = "fetch_call"
            /\ UNCHANGED outcome
       ELSE /\ pc' = "end"
            /\ outcome' = "completed"
            /\ ui' = ui
    /\ UNCHANGED <<exc, cred, clicked, books_input, topic, book_list, idx, calls,
                   concepts_by_book, G, cursor, net, tmp_file, shown, response>>

FetchOutcomes ==
    IF cred = "invalid"
    THEN { [kind |-> "raise", text |-> <<>>] }
    ELSE { [kind |-> "raise", text |-> <<>>] }
         \cup { [kind |-> "text", text |-> t] : t \in FetchTexts }

\* lines 108-139
FetchCall ==
    /\ pc = "fetch_call"
    /\ calls' = Append(calls, [op |-> "events", arg |-> topic])
    /\ \E out \in FetchOutcomes :
         IF out.kind = "raise"
         THEN Raise("APIError") /\ response' = response
         ELSE /\ response' = out.text
              /\ pc' = "parse"
              /\ UNCHANGED <<outcome, exc>>
    /\ UNCHANGED <<cred, clicked, books_input, topic, book_list, idx,
                   concepts_by_book, G, cursor, net, tmp_file, shown, ui>>

\* an except clause that shows the error but does not call st.stop()
ParseJSONNoStop ==
    /\ pc = "parse"
    /\ ui' = ui \o << Msg("error", "Failed to parse JSON", <<>>),
                      Msg("text", "raw", response) >>
    /\ pc' = "timeline"
    /\ UNCHANGED <<outcome, exc, cred, clicked, books_input, topic, book_list, idx, calls,
                   concepts_by_book, G, cursor, net, tmp_file, shown, response>>

\* lines 144-152.  The try body evaluates json.loads: the name json is bound by
\* no import, so it raises NameError; were it bound, json.loads would raise on
\* text that is not JSON.  `except Exception` catches either, shows the error and
\* the raw text, and st.stop() ends the run.  Only a successful try body goes on
\* to the timeline of line 157.
ParseJSON ==
    /\ pc = "parse"
    /\ IF "json" \in Imports /\ response \in ValidJSONTexts
       THEN /\ ui' = ui \o << Msg("success", "Events fetched successfully!", <<>>),
                              Msg("json", "Extracted JSON", response) >>
            /\ pc' = "timeline"
            /\ UNCHANGED outcome
       ELSE /\ ui' = ui \o << Msg("error", "Failed to parse JSON", <<>>),
                              Msg("text", "raw", response) >>
            /\ pc' = "end"
            /\ outcome' = "stopped"
    /\ UNCHANGED <<exc, cred, clicked, books_input, topic, book_list, idx, calls,
                   concepts_by_book, G, cursor, net, tmp_file, shown, response>>

Next ==
    \/ SetupClient
    \/ GenerateMapButton
    \/ OracleCall
    \/ BuildStart
    \/ BuildLine
    \/ CheckEmpty
    \/ SaveGraph
    \/ ShowGraph
    \/ Unlink
    \/ Expander
    \/ FetchEventsButton
    \/ FetchCall
    \/ ParseJSON

Spec == Init /\ [][Next]_vars

----------------------------------------------------------------------------
(* Properties *)

\* the loops of lines 53-63 are over: the graph of this run is final
Built ==
    \/ pc \in {"check", "save", "show", "unlink", "expander"}
    \/ /\ pc \in {"fetch_button", "end"}
       /\ clicked = "map"
       /\ book_list # <<>>
       /\ outcome # "crashed"

\* positions <<book, line>> of the dict's texts that hold an accepted relation
AcceptedRelations(cbb) ==
    { p \in UNION { {<<b, l>> : l \in 1..Len(splitlines(cbb[b][2]))} : b \in 1..Len(cbb) } :
        Accepted(splitlines(cbb[p[1]][2])[p[2]]) }

\* the unordered endpoint pairs of the accepted relations
RelationPairs(cbb) ==
    { { strip(SplitArrow(splitlines(cbb[p[1]][2])[p[2]])[1]),
        strip(SplitArrow(splitlines(cbb[p[1]][2])[p[2]])[2]) } :
      p \in AcceptedRelations(cbb) }

NoDangling(g) == \A e \in DOMAIN g.adj : e \subseteq DOMAIN g.node

HasMsg(kinds) == \E i \in 1..Len(ui) : ui[i].kind \in kinds

\* C1: in Generate Map a failed oracle call is not fatal: the book is skipped and
\* the run goes on, so no Generate Map run with a working credential ends in the
\* exception of a failed call.
C1_FailedCallSkipped ==
    (clicked = "map" /\ cred = "valid") => ~(outcome = "crashed" /\ exc = "APIError")

\* C2: in Fetch Events, once a response whose text is not valid JSON has gone
\* through the parse step, the run is stopped, the last thing shown is the raw
\* text itself, preceded by the error, and no later step is reached.
C2_InvalidJSONAborts ==
    ( /\ calls # <<>>
      /\ calls[Len(calls)].op = "events"
      /\ exc = ""
      /\ pc # "parse"
      /\ response \in InvalidJSONTexts )
    => /\ pc = "end"
       /\ outcome = "stopped"
       /\ Len(ui) >= 2
       /\ ui[Len(ui)] = Msg("text", "raw", response)
       /\ ui[Len(ui) - 1].kind = "error"

C2_Witness == outcome = "stopped" /\ response = <<"[", "{">>

\* C3: no error crosses the boundary of a generation action: once an action has
\* issued an oracle call, the run never ends in an uncaught exception.
C3_NoErrorEscapes == calls # <<>> => outcome # "crashed"

\* C4: every edge of the graph has both endpoints in the node set, at every step
\* of the accumulation and in what is handed to the renderer, saved and shown.
C4_NoDanglingEdge ==
    /\ NoDangling(G)
    /\ NoDangling(net)
    /\ NoDangling(tmp_file.html)
    /\ NoDangling(shown)

C4_Witness == tmp_file.state = "exists" /\ number_of_edges(tmp_file.html) = 2

\* C5 as stated: the final concept graph has as many edges as there are accepted
\* relations in the texts of all books.
C5_EdgesEqualAccepted ==
    Built => number_of_edges(G) = Cardinality(AcceptedRelations(concepts_by_book))

\* C5 as amended: the final concept graph has as many edges as there are distinct
\* unordered endpoint pairs among the accepted relations of the texts kept in
\* concepts_by_book.
C5_EdgesEqualDistinctPairs ==
    Built => number_of_edges(G) = Cardinality(RelationPairs(concepts_by_book))

C5_Witness ==
    /\ Built
    /\ Cardinality(AcceptedRelations(concepts_by_book)) = 2
    /\ number_of_edges(G) = 1

\* C6: running the accumulator a second time over the same texts, on top of the
\* graph the first pass produced, leaves nodes, edges and attributes unchanged.
C6_AccumulateIdempotent == Built => Accumulate(G, concepts_by_book) = G

C6_Witness ==
    /\ Built
    /\ Len(concepts_by_book) = 2
    /\ \A b \in 1..2 : Accepted(concepts_by_book[b][2])
    /\ \E e \in DOMAIN G.adj :
         /\ DOMAIN G.adj = {e}
         /\ G.adj[e]["book"] = concepts_by_book[2][1]

\* C7: an action that ends with an empty result (Generate Map: no node in the
\* graph; Fetch Events: the response is the empty event list) has shown an
\* informational or warning message, has shown no error, and has not raised.
C7_EmptyResultReported ==
    ( \/ /\ clicked = "map" /\ Built /\ number_of_nodes(G) = 0
         /\ pc \in {"expander", "fetch_button", "end"}
      \/ /\ clicked = "fetch" /\ pc \in {"timeline", "end"}
         /\ calls # <<>> /\ exc = "" /\ response = <<"[", "]">> )
    => /\ HasMsg({"info", "warning"})
       /\ ~HasMsg({"error"})
       /\ outcome # "crashed"

\* C8 as stated: without a valid credential no oracle request is ever issued.
C8_NoCallWithoutValidCredential == cred # "valid" => calls = <<>>

\* C8 as amended: when the credential is absent from the secret store, no oracle
\* request is ever issued and the run ends at the lookup, in KeyError.
C8_MissingCredentialHalts ==
    cred = "missing" =>
        /\ calls = <<>>
        /\ pc \in {"setup", "end"}
        /\ pc = "end" => (outcome = "crashed" /\ exc = "KeyError")

C8_Witness == cred = "missing" /\ outcome = "crashed"

\* C9: a finished Generate Map run has issued exactly one oracle request per
\* entry of the book list, in input order.
C9_OneCallPerEntry ==
    (clicked = "map" /\ cred = "valid" /\ pc = "end") =>
        /\ Len(calls) = Len(book_list)
        /\ \A i \in 1..Len(calls) : calls[i] = [op |-> "concepts", arg |-> book_list[i]]

====
